---- MODULE Spec2Model ----
(***************************************************************************)
(* LiveTL: the chat classifier and source aggregator (src/js/sources.js)   *)
(* and the MCHAD translation relay (src/js/mchad.js).                      *)
(*                                                                         *)
(* A svelte store is modelled by its current value: <<>> for null or       *)
(* undefined, <<v>> for a value v.  store.set(v) runs the subscribers      *)
(* synchronously, so a set and everything its subscribers do is one step.  *)
(***************************************************************************)
EXTENDS Integers, Sequences, FiniteSets, TLC

----------------------------------------------------------------------------
(* Bounds of the model *)

\* longest archive script drawn for the script pipeline
MaxScriptLen == 3
\* largest messageId the relay may hand out (caps mchadTLCounter)
MaxId == 3
\* room resolutions getLiveRoomsWithRetry may issue
MaxAttempts == 3
\* chat messages pushed through the classifier in one run
MaxChat == 1
\* frameInfo window messages delivered to ytcSource in one run
MaxFrameInfo == 4
\* most tokens of a room tag string drawn for getRoomTagLanguageCode
MaxTagLen == 3

----------------------------------------------------------------------------
(* Values *)

Null == <<>>

RECURSIVE Flat(_)
Flat(ss) == IF ss = <<>> THEN <<>> ELSE Head(ss) \o Flat(Tail(ss))

Range(s) == {s[i] : i \in 1..Len(s)}

\* JavaScript's remainder: the sign of the dividend
JsRem(a, b) == IF a >= 0 THEN a % b ELSE -((-a) % b)

----------------------------------------------------------------------------
(* mchad.js: pure helpers *)

\* languagesInfo of constants.js: the languages a room tag can name
languagesInfo == << [code |-> "en"], [code |-> "jp"] >>

\* isLangMatch of filter.js, a relation between a tag token and a language
isLangMatch(tag, lang) ==
  \/ tag = "EN" /\ lang.code = "en"
  \/ tag = "JP" /\ lang.code = "jp"
  \/ tag = "EN/JP"

possibleLanguages(tag) ==
  SelectSeq(languagesInfo, LAMBDA lang : isLangMatch(tag, lang))

\* a resolver that answers the first match
getRoomTagLanguageCode_First(tag) ==
  LET possible == Flat([i \in 1..Len(tag) |-> possibleLanguages(tag[i])])
  IN  IF possible = <<>> THEN "null" ELSE possible[1].code

\* tag is the token list tag.split(/\s+/g) yields
getRoomTagLanguageCode(tag) ==
  LET possible == Flat([i \in 1..Len(tag) |-> possibleLanguages(tag[i])])
  IN  IF possible = <<>> THEN "null" ELSE possible[Len(possible)].code

\* Stext values matching /--.*Stream.*Start.*--/i
StreamStartTexts == {"--Stream Start--", "-- stream START --"}

RECURSIVE FindStart(_)
FindStart(script) ==
  IF script = <<>> THEN <<>>
  ELSE IF Head(script).Stext \in StreamStartTexts THEN <<Head(script)>>
       ELSE FindStart(Tail(script))

\* a getFirstTime that does not look for the marker
getFirstTime_FirstEntry(script) ==
  IF script # <<>> THEN script[1].Stime ELSE 0

getFirstTime(script) ==
  IF FindStart(script) # <<>> THEN FindStart(script)[1].Stime
  ELSE IF script # <<>> THEN script[1].Stime
       ELSE 0

\* formatTimestampMillis of utils.js: the HH:MM:SS display of an elapsed time,
\* held as its three ':'-separated components
formatTimestampMillis(millis) ==
  LET time == millis \div 1000
  IN  << time \div 3600, JsRem(time, 3600) \div 60, JsRem(time, 60) >>

\* every Stime the relay can send
UnixTimes == {0, 999, 1000, 1005, 2000, 6000, 65000, 3725000}

archiveUnixToTimestamp(startUnix) ==
  [unix \in UnixTimes |-> formatTimestampMillis(unix - startUnix)]

archiveUnixToNumber(startUnix) == [unix \in UnixTimes |-> unix - startUnix]

\* the en-us wall-clock time of day without its seconds (UTC)
liveUnixToTimestamp ==
  [unix \in UnixTimes |-> << (unix \div 3600000) % 24, (unix \div 60000) % 60 >>]

liveUnixToNumber == [unix \in UnixTimes |-> unix]

RECURSIVE Pow(_, _)
Pow(b, e) == IF e = 0 THEN 1 ELSE b * Pow(b, e - 1)

RECURSIVE SumSeq(_)
SumSeq(s) == IF s = <<>> THEN 0 ELSE Head(s) + SumSeq(Tail(s))

\* archiveTime.split(':').map(parseInt).map((t, i) => t * 60^(2 - i)).reduce(+);
\* the sequence index is i + 1
archiveTimeToInt(archiveTime) ==
  SumSeq([i \in 1..Len(archiveTime) |-> archiveTime[i] * Pow(60, 3 - i)])

\* a mchadToMessage that never increments the counter
mchadToMessage_NoIncrement(author, unixToTimestamp, unixToNumber, langCode, data, counter) ==
  [ text        |-> data.Stext,
    author      |-> author,
    langCode    |-> langCode,
    messageId   |-> counter,
    timestamp   |-> unixToTimestamp[data.Stime],
    types       |-> "mchad",
    timestampMs |-> unixToNumber[data.Stime] ]

\* the message built when mchadTLCounter holds counter: messageId is
\* ++mchadTLCounter
mchadToMessage(author, unixToTimestamp, unixToNumber, langCode, data, counter) ==
  [ text        |-> data.Stext,
    author      |-> author,
    langCode    |-> langCode,
    messageId   |-> counter + 1,
    timestamp   |-> unixToTimestamp[data.Stime],
    types       |-> "mchad",
    timestampMs |-> unixToNumber[data.Stime] ]

\* fetch(...).then(toJson).catch(() => []) of getArchiveFromRoom
fetchScript(answer) == IF answer.ok THEN answer.body ELSE <<>>

\* getArchiveFromRoom once the script request has yielded script
getArchiveFromRoom(room, script, counter) ==
  LET firstTime == getFirstTime(script)
  IN  [i \in 1..Len(script) |->
         mchadToMessage(room.Room, archiveUnixToTimestamp(firstTime),
                        archiveUnixToNumber(firstTime),
                        getRoomTagLanguageCode(room.Tags), script[i],
                        counter + i - 1)]

addUnix(tl) ==
  [ text |-> tl.text, author |-> tl.author, langCode |-> tl.langCode,
    messageId |-> tl.messageId, timestamp |-> tl.timestamp, types |-> tl.types,
    timestampMs |-> tl.timestampMs, unix |-> archiveTimeToInt(tl.timestamp) ]

\* sortBy('unix') of utils.js: ascending, stable
RECURSIVE InsertByUnix(_, _)
InsertByUnix(e, s) ==
  IF s = <<>> THEN <<e>>
  ELSE IF e.unix < Head(s).unix THEN <<e>> \o s
       ELSE <<Head(s)>> \o InsertByUnix(e, Tail(s))

RECURSIVE sortByUnix(_)
sortByUnix(s) ==
  IF s = <<>> THEN <<>>
  ELSE InsertByUnix(s[Len(s)], sortByUnix(SubSeq(s, 1, Len(s) - 1)))

\* a getScript that drops no entry
getScript_NoFilter(room, script, counter) ==
  LET s == getArchiveFromRoom(room, script, counter)
      withUnix == [i \in 1..Len(s) |-> addUnix(s[i])]
  IN  sortByUnix(withUnix)

\* getScript of getArchive: the room's messages with unix added, the negative
\* ones dropped, sorted by unix
getScript(room, script, counter) ==
  LET s == getArchiveFromRoom(room, script, counter)
      withUnix == [i \in 1..Len(s) |-> addUnix(s[i])]
  IN  sortByUnix(SelectSeq(withUnix, LAMBDA e : e.unix >= 0))

getScriptAuthor(script) == script[1].author

isNotEmpty(arr) == Len(arr) # 0

----------------------------------------------------------------------------
(* State *)

VARIABLES
  \* store.js
  enableMchadTLs,     \* the relay's enable toggle
  mchadUsers,         \* Suppression Registry: author -> "absent", "undefined", "true"
  \* mchad.js
  mchadTLCounter,     \* let mchadTLCounter
  pcArchive,          \* getArchive's start function: "rooms", "scripts", "replay", "done"
  vod,                \* the archive rooms getRooms returned
  fetched,            \* per archive room: <<>> while its script is pending, else <<script>>
  scripts,            \* the non-empty scripts being replayed
  archivePos,         \* per replayed script: entries its stream has emitted
  pcLive,             \* getLiveRoomsWithRetry: "resolving", "sleeping", "subscribed"
  liveRooms,          \* the rooms getLiveRoomsWithRetry returned
  roomSubs,           \* indices of liveRooms whose getRoomTranslations store is subscribed
  archiveStore,       \* value of the store getArchive returns
  liveStore,          \* value of the store getLiveTranslations returns
  archiveSubscribed,  \* combineStores' subscriber is on the archive store
  liveSubscribed,     \* combineStores' subscriber is on the live store
  \* sources.js
  mchad,              \* sources.mchad
  translations,       \* sources.translations
  \* history
  retryLog,           \* what getLiveRoomsWithRetry issued: "resolve" or <<"sleep", ms>>
  resolved,           \* the live room lists its resolutions returned, in order
  created,            \* messageIds in the order mchadToMessage built them
  registered,         \* getArchive's mchadUsers.set calls, in order: <<author, value>>
  toggleHist,         \* "on": never off; "off"; "reenabled": on again; "emitted": a
                      \* relay message was forwarded since it is on again
  \* store.js
  showModMessage,     \* the show-mod toggle
  showVerifiedMessage, \* the show-verified toggle
  timestamp,          \* the player progress store
  \* sources.js: sources
  chat,               \* sources.chat, the ytc store of ytcSource
  chatTranslations,   \* sources.chatTranslations
  mod,                \* sources.mod
  verified,           \* sources.verified
  ytcBonks,           \* sources.ytcBonks
  ytcDeletions,       \* sources.ytcDeletions
  \* sources.js: ytcSource
  paramsPopout,       \* constants.js: the page is a popout
  portRegistered,     \* let portRegistered
  tryRegister,        \* let tryRegister
  frameInfo,          \* let frameInfo: <<>> for null
  awaiting,           \* registerClient requests the background has not answered yet
  timers,             \* pending setTimeout(registerClient, 500)
  \* history
  portSent,           \* registerClient requests posted on the port
  errorLog,           \* console.error calls, in order
  frameInfoSeen,      \* frameInfo window messages delivered
  ignored,            \* "flag", "type": a push event with an unrecognised flag, a port
                      \* message with an unrecognised type was delivered
  chatSeen,           \* 'messages' responses delivered
  writes,             \* per message of the last 'messages' response: the message, the
                      \* toggles it was evaluated under and the store writes it caused
  \* the script pipeline on its own
  sStage,             \* "idle", "fetching", "done"
  sRaw,               \* the script the request answers
  sBuilt,             \* what getArchiveFromRoom returns for it
  sOut,               \* what getScript hands to replay
  \* getRooms and the script request on their own
  lookupStage,        \* "idle", "pending", "done"
  lookupLive,         \* the live endpoint's answer
  lookupVod,          \* the archive endpoint's answer
  lookupRooms,        \* what getRooms returns
  fetchStage,         \* "idle", "pending", "done"
  fetchAnswer,        \* the script endpoint's answer
  fetchOut,           \* what getArchiveFromRoom returns
  \* getRoomTagLanguageCode on its own
  tagStage,           \* "idle", "pending", "done"
  tagIn,              \* the tokens of the room's tag string
  tagOut              \* the code returned, "null" for null

relayVars ==
  << enableMchadTLs, mchadUsers, mchadTLCounter, pcArchive, vod, fetched, scripts,
     archivePos, pcLive, liveRooms, roomSubs, archiveStore, liveStore,
     archiveSubscribed, liveSubscribed, mchad, translations, retryLog, resolved,
     created, registered, toggleHist >>

\* the relay's variables but sources.translations, which the chat side sets too
relayCore ==
  << enableMchadTLs, mchadUsers, mchadTLCounter, pcArchive, vod, fetched, scripts,
     archivePos, pcLive, liveRooms, roomSubs, archiveStore, liveStore,
     archiveSubscribed, liveSubscribed, mchad, retryLog, resolved, created,
     registered, toggleHist >>

filterVars ==
  << showModMessage, showVerifiedMessage, chat, chatTranslations, mod, verified,
     chatSeen, writes >>

portVars ==
  << timestamp, ytcBonks, ytcDeletions, paramsPopout, portRegistered, tryRegister,
     frameInfo, awaiting, timers, portSent, errorLog, frameInfoSeen >>

ytcVars == << portVars, ignored >>

pipelineVars == << sStage, sRaw, sBuilt, sOut >>

lookupVars ==
  << lookupStage, lookupLive, lookupVod, lookupRooms, fetchStage, fetchAnswer, fetchOut >>

tagVars == << tagStage, tagIn, tagOut >>

scriptVars == << pipelineVars, lookupVars, tagVars >>

outsideRelay == << filterVars, ytcVars, scriptVars >>

vars == << relayVars, filterVars, ytcVars, scriptVars >>

----------------------------------------------------------------------------
(* The relay: rooms, scripts and push events the MCHAD service can answer *)

Authors == {"r1", "r2"}

\* the authors the user blocks
Blockable == {"r1"}

TagsOf(n) == IF n = "r1" THEN <<"EN">> ELSE <<"JP", "x", "EN/JP">>

ArchiveRoom(n) == [Room |-> n, Link |-> n, Tags |-> TagsOf(n)]

LiveRoom(n) == [Nick |-> n, Tags |-> TagsOf(n)]

\* an endpoint's answer: the request fails, or yields a JSON array
Failed == [ok |-> FALSE, body |-> <<>>]

Answer(body) == [ok |-> TRUE, body |-> body]

VodAnswers ==
  {Failed, Answer(<<>>), Answer(<<ArchiveRoom("r1"), ArchiveRoom("r2")>>)}

LiveAnswers ==
  {Failed, Answer(<<>>), Answer(<<LiveRoom("r2"), LiveRoom("r1")>>)}

TL(text, time) == [Stext |-> text, Stime |-> time]

ScriptAnswers ==
  {Failed, Answer(<<>>), Answer(<<TL("hello", 1000)>>),
   Answer(<<TL("late", 6000), TL("--Stream Start--", 2000)>>)}

\* data.flag of a push event; "none" is an event without a flag
PushFlags == {"insert", "update", "delete", "none"}

PushContents == {TL("hi", 6000)}

\* getRoom of getRoomCreator: fetch(link).then(json).then(map(addVideoId)).catch(() => [])
getRoom(videoId, answer) ==
  IF answer.ok
  THEN [i \in 1..Len(answer.body) |->
          [f \in DOMAIN answer.body[i] \cup {"videoId"} |->
             IF f = "videoId" THEN videoId ELSE answer.body[i][f]]]
  ELSE <<>>

mchadLink == "YT_video"

\* a getRooms that loses both lists when one lookup fails
getRooms_FailTogether(videoLink, liveAnswer, vodAnswer) ==
  IF liveAnswer.ok /\ vodAnswer.ok
  THEN [live |-> getRoom(videoLink, liveAnswer), vod |-> getRoom(videoLink, vodAnswer)]
  ELSE [live |-> <<>>, vod |-> <<>>]

\* getRooms: one link per kind, so combineArr yields that link's rooms
getRooms(videoLink, liveAnswer, vodAnswer) ==
  [live |-> getRoom(videoLink, liveAnswer), vod |-> getRoom(videoLink, vodAnswer)]

\* a check that lets every author through
notSuppressed_Always(author) == TRUE

\* !mchadUsers.get(author)
notSuppressed(author) == mchadUsers[author] # "true"

----------------------------------------------------------------------------
(* mchad.js / sources.js: the relay's operations *)

\* a sources.mchad whose values do not reach sources.translations
SetMchad_RelayOnly(v) ==
  /\ mchad' = <<v>>
  /\ translations' = translations

\* combined.set(v) of combineStores (sources.mchad), whose subscriber in
\* sources.translations sets that store too
SetMchad(v) ==
  /\ mchad' = <<v>>
  /\ translations' = <<v>>

\* an archive subscriber that does not read the toggle
ArchiveForward_NoToggle(tl) ==
  IF notSuppressed(tl.author)
  THEN /\ archiveStore' = <<tl>>
       /\ toggleHist' = IF toggleHist = "reenabled" THEN "emitted" ELSE toggleHist
       /\ IF archiveSubscribed THEN SetMchad(tl) ELSE UNCHANGED << mchad, translations >>
  ELSE UNCHANGED << archiveStore, mchad, translations, toggleHist >>

\* the subscriber of an archive stream (getArchive) given tl
ArchiveForward(tl) ==
  IF enableMchadTLs /\ notSuppressed(tl.author)
  THEN /\ archiveStore' = <<tl>>
       /\ toggleHist' = IF toggleHist = "reenabled" THEN "emitted" ELSE toggleHist
       /\ IF archiveSubscribed THEN SetMchad(tl) ELSE UNCHANGED << mchad, translations >>
  ELSE UNCHANGED << archiveStore, mchad, translations, toggleHist >>

\* a room subscriber that does not read the registry
LiveForward_NoRegistry(msg) ==
  IF enableMchadTLs
  THEN /\ liveStore' = <<msg>>
       /\ toggleHist' = IF toggleHist = "reenabled" THEN "emitted" ELSE toggleHist
       /\ IF liveSubscribed THEN SetMchad(msg) ELSE UNCHANGED << mchad, translations >>
  ELSE UNCHANGED << liveStore, mchad, translations, toggleHist >>

\* the subscriber of a room's translations (getLiveTranslations) given msg
LiveForward(msg) ==
  IF enableMchadTLs /\ notSuppressed(msg.author)
  THEN /\ liveStore' = <<msg>>
       /\ toggleHist' = IF toggleHist = "reenabled" THEN "emitted" ELSE toggleHist
       /\ IF liveSubscribed THEN SetMchad(msg) ELSE UNCHANGED << mchad, translations >>
  ELSE UNCHANGED << liveStore, mchad, translations, toggleHist >>

\* a registration that sets every author's flag anew
registerAuthors_Reset(users, authors) ==
  [a \in DOMAIN users |->
     IF \E i \in 1..Len(authors) : authors[i] = a THEN "undefined" ELSE users[a]]

\* scripts.map(getScriptAuthor).forEach(author => mchadUsers.set(author, mchadUsers.get(author)))
RECURSIVE registerAuthors(_, _)
registerAuthors(users, authors) ==
  IF authors = <<>> THEN users
  ELSE registerAuthors(
         [users EXCEPT ![Head(authors)] =
            IF users[Head(authors)] = "absent" THEN "undefined"
            ELSE users[Head(authors)]],
         Tail(authors))

\* getArchive after await getRooms: no archive room ends the start function
ArchiveRoomsResolved(liveAnswer, vodAnswer) ==
  /\ pcArchive = "rooms"
  /\ LET rooms == getRooms(mchadLink, liveAnswer, vodAnswer).vod
     IN  /\ vod' = rooms
         /\ fetched' = [i \in 1..Len(rooms) |-> <<>>]
         /\ pcArchive' = IF Len(rooms) = 0 THEN "done" ELSE "scripts"
  /\ UNCHANGED << enableMchadTLs, mchadUsers, mchadTLCounter, scripts, archivePos,
                  pcLive, liveRooms, roomSubs, archiveStore, liveStore,
                  archiveSubscribed, liveSubscribed, mchad, translations, retryLog,
                  resolved, created, toggleHist, registered >>
  /\ UNCHANGED outsideRelay

\* the script request of archive room i answers: getScript's chain runs, and
\* once every room's script is in, getArchive goes on past Promise.all:
\* it drops the empty scripts, registers the authors and subscribes the streams
ScriptFetched(i, answer) ==
  /\ pcArchive = "scripts"
  /\ i \in 1..Len(vod)
  /\ fetched[i] = <<>>
  /\ LET raw == fetchScript(answer)
         script == getScript(vod[i], raw, mchadTLCounter)
         all == [fetched EXCEPT ![i] = <<script>>]
         done == \A j \in 1..Len(vod) : all[j] # <<>>
         kept == SelectSeq([j \in 1..Len(vod) |-> all[j][1]], isNotEmpty)
         built == getArchiveFromRoom(vod[i], raw, mchadTLCounter)
     IN  /\ mchadTLCounter + Len(raw) <= MaxId
         /\ mchadTLCounter' = IF built = <<>> THEN mchadTLCounter
                              ELSE built[Len(built)].messageId
         /\ created' = created \o [k \in 1..Len(built) |-> built[k].messageId]
         /\ fetched' = all
         /\ IF done
            THEN /\ scripts' = kept
                 /\ mchadUsers' = registerAuthors(mchadUsers,
                                     [j \in 1..Len(kept) |-> getScriptAuthor(kept[j])])
                 /\ registered' = registered \o
                      [j \in 1..Len(kept) |->
                         <<getScriptAuthor(kept[j]), mchadUsers[getScriptAuthor(kept[j])]>>]
                 /\ archivePos' = [j \in 1..Len(kept) |-> 0]
                 /\ pcArchive' = "replay"
            ELSE UNCHANGED << scripts, mchadUsers, registered, archivePos, pcArchive >>
  /\ UNCHANGED << enableMchadTLs, vod, pcLive, liveRooms, roomSubs, archiveStore,
                  liveStore, archiveSubscribed, liveSubscribed, mchad, translations,
                  retryLog, resolved, toggleHist >>
  /\ UNCHANGED outsideRelay

\* the stream of replayed script j emits its next entry to getArchive's subscriber
ArchiveEmit(j) ==
  /\ pcArchive = "replay"
  /\ j \in 1..Len(scripts)
  /\ archivePos[j] < Len(scripts[j])
  /\ archivePos' = [archivePos EXCEPT ![j] = @ + 1]
  /\ ArchiveForward(scripts[j][archivePos[j] + 1])
  /\ UNCHANGED << enableMchadTLs, mchadUsers, mchadTLCounter, pcArchive, vod, fetched,
                  scripts, pcLive, liveRooms, roomSubs, liveStore, archiveSubscribed,
                  liveSubscribed, retryLog, resolved, created, registered >>
  /\ UNCHANGED outsideRelay

\* sleep(retryInterval * 1000) with getLiveTranslations' retryInterval
retryInterval == 30

\* a LiveRoomsResolved that takes an empty room list for a result
LiveRoomsResolved_ReturnsEmpty(liveAnswer, vodAnswer) ==
  /\ pcLive = "resolving"
  /\ LET live == getRooms(mchadLink, liveAnswer, vodAnswer).live
     IN  /\ resolved' = Append(resolved, live)
         /\ liveRooms' = live
         /\ roomSubs' = 1..Len(live)
         /\ pcLive' = "subscribed"
         /\ UNCHANGED retryLog
  /\ UNCHANGED << enableMchadTLs, mchadUsers, mchadTLCounter, pcArchive, vod, fetched,
                  scripts, archivePos, archiveStore, liveStore, archiveSubscribed,
                  liveSubscribed, mchad, translations, created, toggleHist, registered >>
  /\ UNCHANGED outsideRelay

\* getLiveRoomsWithRetry after await getRooms: a live room ends the loop and
\* getLiveTranslations subscribes every room, no live room starts the sleep
LiveRoomsResolved(liveAnswer, vodAnswer) ==
  /\ pcLive = "resolving"
  /\ LET live == getRooms(mchadLink, liveAnswer, vodAnswer).live
     IN  /\ resolved' = Append(resolved, live)
         /\ IF Len(live) # 0
            THEN /\ liveRooms' = live
                 /\ roomSubs' = 1..Len(live)
                 /\ pcLive' = "subscribed"
                 /\ UNCHANGED retryLog
            ELSE /\ retryLog' = Append(retryLog, <<"sleep", retryInterval * 1000>>)
                 /\ pcLive' = "sleeping"
                 /\ UNCHANGED << liveRooms, roomSubs >>
  /\ UNCHANGED << enableMchadTLs, mchadUsers, mchadTLCounter, pcArchive, vod, fetched,
                  scripts, archivePos, archiveStore, liveStore, archiveSubscribed,
                  liveSubscribed, mchad, translations, created, toggleHist, registered >>
  /\ UNCHANGED outsideRelay

\* the retry sleep ends: the loop calls getRooms again
SleepDone ==
  /\ pcLive = "sleeping"
  /\ Len(resolved) < MaxAttempts
  /\ retryLog' = Append(retryLog, <<"resolve">>)
  /\ pcLive' = "resolving"
  /\ UNCHANGED << enableMchadTLs, mchadUsers, mchadTLCounter, pcArchive, vod, fetched,
                  scripts, archivePos, liveRooms, roomSubs, archiveStore, liveStore,
                  archiveSubscribed, liveSubscribed, mchad, translations, resolved,
                  created, toggleHist, registered >>
  /\ UNCHANGED outsideRelay

\* data.flag values the derived callback acts on
RecognisedFlags == {"insert", "update"}

\* a derived callback that acts on every flag
LivePush_AnyFlag(r, flag, content) ==
  /\ pcLive = "subscribed"
  /\ r \in roomSubs
  /\ IF enableMchadTLs
     THEN LET msg == mchadToMessage(liveRooms[r].Nick, liveUnixToTimestamp,
                                    liveUnixToNumber,
                                    getRoomTagLanguageCode(liveRooms[r].Tags),
                                    content, mchadTLCounter)
          IN  /\ mchadTLCounter < MaxId
              /\ mchadTLCounter' = msg.messageId
              /\ created' = Append(created, msg.messageId)
              /\ LiveForward(msg)
     ELSE UNCHANGED << mchadTLCounter, created, liveStore, mchad, translations,
                       toggleHist >>
  /\ ignored' = IF flag \in RecognisedFlags THEN ignored ELSE ignored \cup {"flag"}
  /\ UNCHANGED << enableMchadTLs, mchadUsers, pcArchive, vod, fetched, scripts,
                  archivePos, pcLive, liveRooms, roomSubs, archiveStore,
                  archiveSubscribed, liveSubscribed, retryLog, resolved, registered >>
  /\ UNCHANGED << filterVars, portVars, scriptVars >>

\* getRoomTranslations' derived callback on a push event of subscribed room r,
\* and getLiveTranslations' subscriber on the message it sets
LivePush(r, flag, content) ==
  /\ pcLive = "subscribed"
  /\ r \in roomSubs
  /\ IF enableMchadTLs /\ flag \in RecognisedFlags
     THEN LET msg == mchadToMessage(liveRooms[r].Nick, liveUnixToTimestamp,
                                    liveUnixToNumber,
                                    getRoomTagLanguageCode(liveRooms[r].Tags),
                                    content, mchadTLCounter)
          IN  /\ mchadTLCounter < MaxId
              /\ mchadTLCounter' = msg.messageId
              /\ created' = Append(created, msg.messageId)
              /\ LiveForward(msg)
     ELSE UNCHANGED << mchadTLCounter, created, liveStore, mchad, translations,
                       toggleHist >>
  /\ ignored' = IF flag \in RecognisedFlags THEN ignored ELSE ignored \cup {"flag"}
  /\ UNCHANGED << enableMchadTLs, mchadUsers, pcArchive, vod, fetched, scripts,
                  archivePos, pcLive, liveRooms, roomSubs, archiveStore,
                  archiveSubscribed, liveSubscribed, retryLog, resolved, registered >>
  /\ UNCHANGED << filterVars, portVars, scriptVars >>

\* cleanUp of combineStores(getArchive, getLiveTranslations):
\* unsubscribes.forEach(u => u()).  The archive store's unsubscribe removes the
\* subscriber and calls stop(); both start functions are async, so stop is a
\* Promise, the call throws, and the live store's unsubscribe is never reached
CleanUp ==
  /\ archiveSubscribed
  /\ archiveSubscribed' = FALSE
  /\ UNCHANGED << enableMchadTLs, mchadUsers, mchadTLCounter, pcArchive, vod, fetched,
                  scripts, archivePos, pcLive, liveRooms, roomSubs, archiveStore,
                  liveStore, liveSubscribed, mchad, translations, retryLog, resolved,
                  created, toggleHist, registered >>
  /\ UNCHANGED outsideRelay

\* the consumer calls the unsubscribe handle of the getLiveTranslations store:
\* the subscriber is removed; the function the async start function would
\* return is never called, so the retry loop and the room subscriptions stay
LiveUnsubscribe ==
  /\ liveSubscribed
  /\ liveSubscribed' = FALSE
  /\ UNCHANGED << enableMchadTLs, mchadUsers, mchadTLCounter, pcArchive, vod, fetched,
                  scripts, archivePos, pcLive, liveRooms, roomSubs, archiveStore,
                  liveStore, archiveSubscribed, mchad, translations, retryLog,
                  resolved, created, toggleHist, registered >>
  /\ UNCHANGED outsideRelay

\* the user switches the relay toggle (enableMchadTLs.set)
SetEnable(b) ==
  /\ b # enableMchadTLs
  /\ enableMchadTLs' = b
  /\ toggleHist' = IF b THEN "reenabled" ELSE "off"
  /\ UNCHANGED << mchadUsers, mchadTLCounter, pcArchive, vod, fetched, scripts,
                  archivePos, pcLive, liveRooms, roomSubs, archiveStore, liveStore,
                  archiveSubscribed, liveSubscribed, mchad, translations, retryLog,
                  resolved, created, registered >>
  /\ UNCHANGED outsideRelay

\* the user blocks a relay author (mchadUsers.set(author, true))
BlockUser(author) ==
  /\ mchadUsers[author] # "true"
  /\ mchadUsers' = [mchadUsers EXCEPT ![author] = "true"]
  /\ UNCHANGED << enableMchadTLs, mchadTLCounter, pcArchive, vod, fetched, scripts,
                  archivePos, pcLive, liveRooms, roomSubs, archiveStore, liveStore,
                  archiveSubscribed, liveSubscribed, mchad, translations, retryLog,
                  resolved, created, toggleHist, registered >>
  /\ UNCHANGED outsideRelay

----------------------------------------------------------------------------
(* filter.js: the classifier's predicates.  A text is a sequence of tokens:  *)
(* " " is white space, "[en]" a translation marker, anything else a word.    *)

trimStart(text) ==
  LET firstWord == {i \in 1..Len(text) : text[i] # " "}
  IN  IF firstWord = {} THEN <<>>
      ELSE SubSeq(text, CHOOSE i \in firstWord : \A k \in firstWord : i <= k, Len(text))

trimEnd(text) ==
  LET lastWord == {i \in 1..Len(text) : text[i] # " "}
  IN  IF lastWord = {} THEN <<>>
      ELSE SubSeq(text, 1, CHOOSE i \in lastWord : \A k \in lastWord : k <= i)

\* String.prototype.trim
trim(text) == trimEnd(trimStart(text))

\* parseTranslation: a leading language tag and the text after it, or null
parseTranslation(text) ==
  IF trim(text) # <<>> /\ Head(trim(text)) = "[en]"
  THEN << [lang |-> "en", msg |-> trim(Tail(trim(text)))] >>
  ELSE Null

isTranslation(parsed) == parsed # Null

\* the user's allow and deny patterns, and allow and deny lists of authors
textWhitelisted(text) == \E i \in 1..Len(text) : text[i] = "w"

textBlacklisted(text) == \E i \in 1..Len(text) : text[i] = "b"

authorWhitelisted(author) == author \in {"aW", "aWB"}

authorBlacklisted(author) == author \in {"aB", "aWB"}

\* replaceFirstTranslation: the message with the language tag taken out of its
\* first text item
replaceFirstTranslation(msg) ==
  LET arr == msg.messageArray
      tagged == {i \in 1..Len(arr) : \E k \in 1..Len(arr[i].text) : arr[i].text[k] = "[en]"}
  IN  IF tagged = {} THEN msg
      ELSE LET i == CHOOSE x \in tagged : \A y \in tagged : x <= y
               k == CHOOSE x \in 1..Len(arr[i].text) :
                      /\ arr[i].text[x] = "[en]"
                      /\ \A y \in 1..(x - 1) : arr[i].text[y] # "[en]"
           IN  [msg EXCEPT !.messageArray[i].text =
                  trimStart(SubSeq(arr[i].text, k + 1, Len(arr[i].text)))]

----------------------------------------------------------------------------
(* sources.js: the classifier *)

isWhitelisted(msg) == textWhitelisted(msg.text) \/ authorWhitelisted(msg.author)

\* a deny check that forgets the author list
isBlacklisted_TextOnly(msg) == textBlacklisted(msg.text)

isBlacklisted(msg) == textBlacklisted(msg.text) \/ authorBlacklisted(msg.author)

\* msg.types is the set of AuthorType flags or-ed into the bit field
isMod(msg) == "moderator" \in msg.types \/ "owner" \in msg.types

\* a moderator check that does not read the toggle
showIfMod_NoToggle(msg) == isMod(msg)

showIfMod(msg) == isMod(msg) /\ showModMessage

showIfVerified(msg) == "verified" \in msg.types /\ showVerifiedMessage

\* the value store.set receives: { ...msg, text: text ?? msg.text };
\* text is <<>> when the argument is left out
setStoreMessage(msg, text) ==
  [msg EXCEPT !.text = IF text = Null THEN msg.text ELSE text[1]]

\* an attachFilters whose Translations rules do not ask for a text
attachFilters_NoTextGuard(message) ==
  IF message = Null \/ isBlacklisted(message[1]) THEN <<>>
  ELSE LET m == message[1]
           text == trim(m.text)
           parsed == parseTranslation(text)
       IN  IF isTranslation(parsed)
           THEN << [store |-> "chatTranslations",
                    value |-> setStoreMessage(replaceFirstTranslation(m),
                                              <<parsed[1].msg>>)] >>
           ELSE IF isWhitelisted(m)
           THEN << [store |-> "chatTranslations", value |-> setStoreMessage(m, Null)] >>
           ELSE IF showIfMod(m)
           THEN << [store |-> "mod", value |-> setStoreMessage(m, Null)] >>
           ELSE IF showIfVerified(m)
           THEN << [store |-> "verified", value |-> setStoreMessage(m, Null)] >>
           ELSE <<>>

\* the subscriber attachFilters puts on sources.chat, as the store writes it
\* makes for message, in order
attachFilters(message) ==
  IF message = Null \/ isBlacklisted(message[1]) THEN <<>>
  ELSE LET m == message[1]
           text == trim(m.text)
           parsed == parseTranslation(text)
       IN  IF text # <<>> /\ isTranslation(parsed)
           THEN << [store |-> "chatTranslations",
                    value |-> setStoreMessage(replaceFirstTranslation(m),
                                              <<parsed[1].msg>>)] >>
           ELSE IF text # <<>> /\ isWhitelisted(m)
           THEN << [store |-> "chatTranslations", value |-> setStoreMessage(m, Null)] >>
           ELSE IF showIfMod(m)
           THEN << [store |-> "mod", value |-> setStoreMessage(m, Null)] >>
           ELSE IF showIfVerified(m)
           THEN << [store |-> "verified", value |-> setStoreMessage(m, Null)] >>
           ELSE <<>>

ytcToMsg(ytcMessage) ==
  [ text |-> Flat([i \in 1..Len(ytcMessage.message) |->
                     IF ytcMessage.message[i].type \in {"text", "link"}
                     THEN ytcMessage.message[i].text ELSE <<>>]),
    timestamp |-> ytcMessage.timestamp,
    author |-> ytcMessage.author.name,
    authorId |-> ytcMessage.author.id,
    types |-> Range(ytcMessage.author.types),
    messageArray |-> ytcMessage.message,
    messageId |-> ytcMessage.messageId,
    timestampMs |-> ytcMessage.showtime ]

\* the value store holds after the writes of outs (one sequence per message)
RECURSIVE StoreAfter(_, _, _)
StoreAfter(store, outs, current) ==
  IF outs = <<>> THEN current
  ELSE LET last == outs[Len(outs)]
       IN  IF last # <<>> /\ last[Len(last)].store = store
           THEN <<last[Len(last)].value>>
           ELSE StoreAfter(store, SubSeq(outs, 1, Len(outs) - 1), current)

\* port listener, 'messages': response.messages.forEach(m => newMessage(m.message));
\* each ytc.set runs attachFilters' subscriber, and a write to chatTranslations
\* runs the subscriber that sets sources.translations
PortMessages(batch) ==
  /\ chatSeen < MaxChat
  /\ chatSeen' = chatSeen + 1
  /\ LET msgs == [i \in 1..Len(batch) |-> ytcToMsg(batch[i])]
         outs == [i \in 1..Len(batch) |-> attachFilters(<<msgs[i]>>)]
     IN  /\ chat' = IF batch = <<>> THEN chat ELSE <<msgs[Len(msgs)]>>
         /\ chatTranslations' = StoreAfter("chatTranslations", outs, chatTranslations)
         /\ translations' = StoreAfter("chatTranslations", outs, translations)
         /\ mod' = StoreAfter("mod", outs, mod)
         /\ verified' = StoreAfter("verified", outs, verified)
         /\ writes' = [i \in 1..Len(batch) |->
                         [ msg |-> msgs[i], showMod |-> showModMessage,
                           showVerified |-> showVerifiedMessage, out |-> outs[i] ]]
  /\ UNCHANGED << showModMessage, showVerifiedMessage, ytcVars, relayCore, scriptVars >>

\* the user switches the show-mod toggle
SetShowMod(b) ==
  /\ b # showModMessage
  /\ showModMessage' = b
  /\ UNCHANGED << showVerifiedMessage, chat, chatTranslations, mod, verified, chatSeen,
                  writes, translations, ytcVars, relayCore, scriptVars >>

\* the user switches the show-verified toggle
SetShowVerified(b) ==
  /\ b # showVerifiedMessage
  /\ showVerifiedMessage' = b
  /\ UNCHANGED << showModMessage, chat, chatTranslations, mod, verified, chatSeen,
                  writes, translations, ytcVars, relayCore, scriptVars >>

----------------------------------------------------------------------------
(* sources.js: ytcSource's handshake and port listener *)

\* tryRegister < 3
registerAttempts == 3

\* registerClient with frameInfo holding fi
registerClient(fi) ==
  IF fi = Null
  THEN /\ errorLog' = Append(errorLog, "frameInfo is null")
       /\ UNCHANGED << portSent, awaiting, tryRegister >>
  ELSE /\ portSent' = portSent + 1
       /\ awaiting' = awaiting + 1
       /\ tryRegister' = tryRegister + 1
       /\ UNCHANGED errorLog

\* window 'message' listener on a message of type 'frameInfo' carrying fi
WindowFrameInfo(fi) ==
  /\ frameInfoSeen < MaxFrameInfo
  /\ frameInfoSeen' = frameInfoSeen + 1
  /\ IF ~paramsPopout /\ ~portRegistered
     THEN /\ frameInfo' = fi
          /\ registerClient(fi)
     ELSE UNCHANGED << frameInfo, portSent, awaiting, tryRegister, errorLog >>
  /\ UNCHANGED << timestamp, ytcBonks, ytcDeletions, paramsPopout, portRegistered,
                  ignored, timers, filterVars, translations, relayCore, scriptVars >>

\* port listener, 'registerClientResponse': the background answers a request
RegisterClientResponse(success) ==
  /\ awaiting > 0
  /\ awaiting' = awaiting - 1
  /\ IF success
     THEN /\ portRegistered' = TRUE
          /\ UNCHANGED << timers, errorLog >>
     ELSE /\ IF tryRegister < registerAttempts
             THEN /\ timers' = timers + 1
                  /\ UNCHANGED errorLog
             ELSE /\ errorLog' = Append(errorLog, "Failed to connect to YTC source after 3 attempts")
                  /\ UNCHANGED timers
          /\ UNCHANGED portRegistered
  /\ UNCHANGED << timestamp, ytcBonks, ytcDeletions, paramsPopout, tryRegister,
                  ignored, frameInfo, portSent, frameInfoSeen, filterVars, translations,
                  relayCore, scriptVars >>

\* a setTimeout(registerClient, 500) comes due
RetryTimer ==
  /\ timers > 0
  /\ timers' = timers - 1
  /\ registerClient(frameInfo)
  /\ UNCHANGED << timestamp, ytcBonks, ytcDeletions, paramsPopout, portRegistered,
                  ignored, frameInfo, frameInfoSeen, filterVars, translations, relayCore,
                  scriptVars >>

\* port listener, 'bonk'
PortBonk(bonk) ==
  /\ ytcBonks' = << <<bonk>> >>
  /\ UNCHANGED << timestamp, ytcDeletions, paramsPopout, portRegistered, tryRegister,
                  frameInfo, awaiting, timers, portSent, errorLog, frameInfoSeen,
                  ignored, filterVars, translations, relayCore, scriptVars >>

\* port listener, 'delete'
PortDelete(deletion) ==
  /\ ytcDeletions' = << <<deletion>> >>
  /\ UNCHANGED << timestamp, ytcBonks, paramsPopout, portRegistered, tryRegister,
                  frameInfo, awaiting, timers, portSent, errorLog, frameInfoSeen,
                  ignored, filterVars, translations, relayCore, scriptVars >>

\* port listener, 'playerProgress'
PortPlayerProgress(progress) ==
  /\ timestamp' = <<progress>>
  /\ UNCHANGED << ytcBonks, ytcDeletions, paramsPopout, portRegistered, tryRegister,
                  frameInfo, awaiting, timers, portSent, errorLog, frameInfoSeen,
                  ignored, filterVars, translations, relayCore, scriptVars >>

\* port listener, a response type no case of the switch names
PortUnknown ==
  /\ ignored' = ignored \cup {"type"}
  /\ UNCHANGED << portVars, filterVars, relayVars, scriptVars >>

----------------------------------------------------------------------------
(* Initial states and specifications *)

\* the module has been evaluated: sources.mchad subscribes both relay stores,
\* whose start functions have each issued their first getRooms
RelayStart ==
  /\ enableMchadTLs = TRUE
  /\ mchadUsers = [a \in Authors |-> "absent"]
  /\ mchadTLCounter = 0
  /\ pcArchive = "rooms"
  /\ vod = <<>>
  /\ fetched = <<>>
  /\ scripts = <<>>
  /\ archivePos = <<>>
  /\ pcLive = "resolving"
  /\ liveRooms = <<>>
  /\ roomSubs = {}
  /\ archiveStore = Null
  /\ liveStore = Null
  /\ archiveSubscribed = TRUE
  /\ liveSubscribed = TRUE
  /\ mchad = Null
  /\ translations = Null
  /\ retryLog = << <<"resolve">> >>
  /\ resolved = <<>>
  /\ created = <<>>
  /\ registered = <<>>
  /\ toggleHist = "on"

\* ytcSource(window) has run: the port is connected, and a popout page has
\* sent its first registerClient with the frame of its URL parameters
ChatStart(popout, showMod, showVerified) ==
  /\ showModMessage = showMod
  /\ showVerifiedMessage = showVerified
  /\ timestamp = Null
  /\ chat = Null
  /\ chatTranslations = Null
  /\ mod = Null
  /\ verified = Null
  /\ ytcBonks = Null
  /\ ytcDeletions = Null
  /\ paramsPopout = popout
  /\ portRegistered = FALSE
  /\ tryRegister = (IF popout THEN 1 ELSE 0)
  /\ frameInfo = (IF popout THEN <<"params">> ELSE Null)
  /\ awaiting = (IF popout THEN 1 ELSE 0)
  /\ timers = 0
  /\ portSent = (IF popout THEN 1 ELSE 0)
  /\ errorLog = <<>>
  /\ frameInfoSeen = 0
  /\ ignored = {}
  /\ chatSeen = 0
  /\ writes = <<>>

PipelineIdle ==
  /\ sStage = "idle"
  /\ sRaw = <<>>
  /\ sBuilt = <<>>
  /\ sOut = <<>>

LookupIdle ==
  /\ lookupStage = "idle"
  /\ lookupLive = Failed
  /\ lookupVod = Failed
  /\ lookupRooms = [live |-> <<>>, vod |-> <<>>]
  /\ fetchStage = "idle"
  /\ fetchAnswer = Failed
  /\ fetchOut = <<>>

TagIdle ==
  /\ tagStage = "idle"
  /\ tagIn = <<>>
  /\ tagOut = "null"

ScriptIdle ==
  /\ PipelineIdle
  /\ LookupIdle
  /\ TagIdle

InitRelay ==
  /\ RelayStart
  /\ ChatStart(FALSE, TRUE, TRUE)
  /\ ScriptIdle

NextRelay ==
  \/ \E la \in LiveAnswers, va \in VodAnswers : ArchiveRoomsResolved(la, va)
  \/ \E i \in 1..Len(vod), a \in ScriptAnswers : ScriptFetched(i, a)
  \/ \E j \in 1..Len(scripts) : ArchiveEmit(j)
  \/ \E la \in LiveAnswers, va \in VodAnswers : LiveRoomsResolved(la, va)
  \/ SleepDone
  \/ \E r \in roomSubs, f \in RecognisedFlags, c \in PushContents : LivePush(r, f, c)
  \/ CleanUp
  \/ LiveUnsubscribe
  \/ \E b \in BOOLEAN : SetEnable(b)
  \/ \E a \in Blockable : BlockUser(a)

SpecRelay == InitRelay /\ [][NextRelay]_vars

----------------------------------------------------------------------------
(* The classifier on its own: chat messages and the two toggles *)

ChatAuthors == {"a0", "aW", "aB", "aWB"}

ChatTypes ==
  {<<>>, <<"moderator">>, <<"owner">>, <<"verified">>, <<"verified", "moderator">>}

Txt(t) == [type |-> "text", text |-> t]

ChatBodies ==
  { <<Txt(<<>>)>>, <<Txt(<<" ">>)>>, <<Txt(<<"x">>)>>, <<Txt(<<"w">>)>>,
    <<Txt(<<"b">>)>>, <<Txt(<<"[en]">>)>>, <<Txt(<<"[en]", " ", "x">>)>>,
    <<Txt(<<"[en]", "w", "b">>)>>,
    << [type |-> "emoji", text |-> <<"x">>], Txt(<<" ", "[en]", "x", " ">>) >> }

YtcMessage(name, types, body) ==
  [ message |-> body, author |-> [name |-> name, id |-> name, types |-> types],
    timestamp |-> "3:15 PM", messageId |-> "id", showtime |-> 0 ]

ChatInputs ==
  {YtcMessage(n, t, b) : n \in ChatAuthors, t \in ChatTypes, b \in ChatBodies}

InitFilter ==
  /\ RelayStart
  /\ \E sm \in BOOLEAN, sv \in BOOLEAN : ChatStart(FALSE, sm, sv)
  /\ ScriptIdle

NextFilter ==
  \/ \E m \in ChatInputs : PortMessages(<<m>>)
  \/ \E b \in BOOLEAN : SetShowMod(b)
  \/ \E b \in BOOLEAN : SetShowVerified(b)

SpecFilter == InitFilter /\ [][NextFilter]_vars

----------------------------------------------------------------------------
(* ytcSource on its own: the handshake and the port's pushes *)

FrameInfos == {Null, <<"frame">>}

YtcBatches ==
  { <<>>,
    <<YtcMessage("a0", <<>>, <<Txt(<<"[en]", "x">>)>>)>>,
    << YtcMessage("a0", <<"moderator">>, <<Txt(<<"x">>)>>),
       YtcMessage("aW", <<"verified">>, <<Txt(<<"w">>)>>) >> }

InitYtc ==
  /\ RelayStart
  /\ \E popout \in BOOLEAN : ChatStart(popout, TRUE, TRUE)
  /\ ScriptIdle

NextYtc ==
  \/ \E fi \in FrameInfos : WindowFrameInfo(fi)
  \/ \E ok \in BOOLEAN : RegisterClientResponse(ok)
  \/ RetryTimer
  \/ \E batch \in YtcBatches : PortMessages(batch)
  \/ PortBonk("bonk")
  \/ PortDelete("deletion")
  \/ PortPlayerProgress(10)
  \/ PortUnknown

SpecYtc == InitYtc /\ [][NextYtc]_vars

----------------------------------------------------------------------------
(* The aggregator: the relay and the classifier feeding sources.translations; *)
(* the page keeps no cleanUp handle of its combined stores                    *)

InitMerge ==
  /\ RelayStart
  /\ ChatStart(FALSE, TRUE, TRUE)
  /\ ScriptIdle

NextMerge ==
  \/ \E la \in LiveAnswers, va \in VodAnswers : ArchiveRoomsResolved(la, va)
  \/ \E i \in 1..Len(vod), a \in ScriptAnswers : ScriptFetched(i, a)
  \/ \E j \in 1..Len(scripts) : ArchiveEmit(j)
  \/ \E la \in LiveAnswers, va \in VodAnswers : LiveRoomsResolved(la, va)
  \/ SleepDone
  \/ \E r \in roomSubs, f \in RecognisedFlags, c \in PushContents : LivePush(r, f, c)
  \/ \E batch \in YtcBatches : PortMessages(batch)

SpecMerge == InitMerge /\ [][NextMerge]_vars

----------------------------------------------------------------------------
(* The two push dispatchers side by side: the live rooms' events and the      *)
(* port's messages, with the handshake                                        *)

InitDispatch ==
  /\ RelayStart
  /\ \E popout \in BOOLEAN : ChatStart(popout, TRUE, TRUE)
  /\ ScriptIdle

NextDispatch ==
  \/ \E la \in LiveAnswers : LiveRoomsResolved(la, Answer(<<>>))
  \/ SleepDone
  \/ \E r \in roomSubs, f \in PushFlags, c \in PushContents : LivePush(r, f, c)
  \/ \E fi \in FrameInfos : WindowFrameInfo(fi)
  \/ \E ok \in BOOLEAN : RegisterClientResponse(ok)
  \/ RetryTimer
  \/ PortUnknown

SpecDispatch == InitDispatch /\ [][NextDispatch]_vars

----------------------------------------------------------------------------
(* The script pipeline on its own: getScript over every short script *)

ScriptTexts == {"hello", "-- stream START --"}

ScriptTimes == {999, 1000, 2000, 65000, 3725000}

ScriptEntries == {TL(t, u) : t \in ScriptTexts, u \in ScriptTimes}

\* a script that opens with the marker, and an entry 5 ms after it
MarkerFirstScript == << TL("--Stream Start--", 1000), TL("hello", 1005) >>

ScriptInputs ==
  UNION {[1..n -> ScriptEntries] : n \in 0..MaxScriptLen} \cup {MarkerFirstScript}

\* the script request answers sRaw and getScript's chain runs on it
RunGetScript ==
  /\ sStage = "fetching"
  /\ sStage' = "done"
  /\ sBuilt' = getArchiveFromRoom(ArchiveRoom("r1"), sRaw, 0)
  /\ sOut' = getScript(ArchiveRoom("r1"), sRaw, 0)
  /\ UNCHANGED << sRaw, lookupVars, tagVars, relayVars, filterVars, ytcVars >>

InitScript ==
  /\ RelayStart
  /\ ChatStart(FALSE, TRUE, TRUE)
  /\ sStage = "fetching"
  /\ sRaw \in ScriptInputs
  /\ sBuilt = <<>>
  /\ sOut = <<>>
  /\ LookupIdle
  /\ TagIdle

NextScript == RunGetScript

SpecScript == InitScript /\ [][NextScript]_vars

----------------------------------------------------------------------------
(* The lookups on their own: getRooms and the script request over every answer *)

LookupLiveAnswers == LiveAnswers \cup {Answer(<<LiveRoom("r1")>>)}

LookupVodAnswers == VodAnswers \cup {Answer(<<ArchiveRoom("r2")>>)}

\* both lookups of getRooms have settled
RunGetRooms ==
  /\ lookupStage = "pending"
  /\ lookupStage' = "done"
  /\ lookupRooms' = getRooms(mchadLink, lookupLive, lookupVod)
  /\ UNCHANGED << lookupLive, lookupVod, fetchStage, fetchAnswer, fetchOut,
                  pipelineVars, tagVars, relayVars, filterVars, ytcVars >>

\* the script request of getArchiveFromRoom has settled
RunGetArchiveFromRoom ==
  /\ fetchStage = "pending"
  /\ fetchStage' = "done"
  /\ fetchOut' = getArchiveFromRoom(ArchiveRoom("r1"), fetchScript(fetchAnswer), 0)
  /\ UNCHANGED << fetchAnswer, lookupStage, lookupLive, lookupVod, lookupRooms,
                  pipelineVars, tagVars, relayVars, filterVars, ytcVars >>

InitLookup ==
  /\ RelayStart
  /\ ChatStart(FALSE, TRUE, TRUE)
  /\ PipelineIdle
  /\ TagIdle
  /\ lookupStage = "pending"
  /\ lookupLive \in LookupLiveAnswers
  /\ lookupVod \in LookupVodAnswers
  /\ lookupRooms = [live |-> <<>>, vod |-> <<>>]
  /\ fetchStage = "pending"
  /\ fetchAnswer \in ScriptAnswers
  /\ fetchOut = <<>>

NextLookup ==
  \/ RunGetRooms
  \/ RunGetArchiveFromRoom

SpecLookup == InitLookup /\ [][NextLookup]_vars

----------------------------------------------------------------------------
(* The tag resolver on its own: getRoomTagLanguageCode over every short tag *)

TagTokens == {"EN", "JP", "EN/JP", "x"}

\* split(/\s+/g) yields at least one token
TagInputs == UNION {[1..n -> TagTokens] : n \in 1..MaxTagLen}

RunGetRoomTagLanguageCode ==
  /\ tagStage = "pending"
  /\ tagStage' = "done"
  /\ tagOut' = getRoomTagLanguageCode(tagIn)
  /\ UNCHANGED << tagIn, pipelineVars, lookupVars, relayVars, filterVars, ytcVars >>

InitTags ==
  /\ RelayStart
  /\ ChatStart(FALSE, TRUE, TRUE)
  /\ PipelineIdle
  /\ LookupIdle
  /\ tagStage = "pending"
  /\ tagIn \in TagInputs
  /\ tagOut = "null"

NextTags == RunGetRoomTagLanguageCode

SpecTags == InitTags /\ [][NextTags]_vars

----------------------------------------------------------------------------
(* The relay's properties *)

\* this step writes a message of author a to the store of getArchive or of
\* getLiveTranslations
ForwardedFrom(a) ==
  \/ archiveStore' # archiveStore /\ archiveStore' # Null /\ archiveStore'[1].author = a
  \/ liveStore' # liveStore /\ liveStore' # Null /\ liveStore'[1].author = a

\* C3 as stated: a relay message whose author is a key of the Suppression
\* Registry, whatever its flag, is never forwarded to the relay stream.
C3_PresentNeverForwarded ==
  [][\A a \in Authors : mchadUsers[a] # "absent" => ~ForwardedFrom(a)]_vars

\* C3 amended: a relay message whose author's flag in the Suppression Registry
\* is set (suppressed) when it is emitted is never forwarded to the relay
\* stream; an author that is present with an unset flag is forwarded.
C3_SuppressedNeverForwarded ==
  [][\A a \in Authors : mchadUsers[a] = "true" => ~ForwardedFrom(a)]_vars

\* a replayed script was emitted to its end with the toggle on throughout, and
\* nothing reached the archive store because its author is suppressed
C3_Witness ==
  /\ toggleHist = "on"
  /\ archiveStore = Null
  /\ \E j \in 1..Len(scripts) :
       /\ archivePos[j] = Len(scripts[j])
       /\ mchadUsers[getScriptAuthor(scripts[j])] = "true"

\* getRooms calls getLiveRoomsWithRetry has issued
Resolutions(log) == Cardinality({i \in 1..Len(log) : log[i] = <<"resolve">>})

\* C4: once the consumer has unsubscribed from the live store before a live
\* room was found, no further room resolution is issued (a pending sleep never
\* leads to a retry).
C4_UnsubscribeStopsRetry ==
  [][(~liveSubscribed /\ pcLive # "subscribed")
       => Resolutions(retryLog') = Resolutions(retryLog)]_vars

\* combineStores(...).cleanUp has been called
TornDown == ~archiveSubscribed

\* C5: after the aggregator's teardown every nested room subscription (live
\* rooms and archive streams) is unsubscribed and nothing is written to the
\* relay or combined stream.
C5_TeardownSilences ==
  /\ [](TornDown => (roomSubs = {} /\ pcArchive # "replay"))
  /\ [][TornDown => (mchad' = mchad /\ translations' = translations)]_vars

\* C6: getLiveRoomsWithRetry alternates resolve and sleep(30 s): after n empty
\* resolutions and a non-empty one it has made n + 1 resolutions and n sleeps and
\* returns the rooms of the last one; it returns on no empty resolution, and
\* issues nothing once it has returned.
C6_RetryProtocol ==
  /\ [](/\ \A i \in 1..Len(retryLog) :
            retryLog[i] = IF i % 2 = 1 THEN <<"resolve">> ELSE <<"sleep", 30000>>
        /\ pcLive = "resolving" =>
             /\ Len(retryLog) = 2 * Len(resolved) + 1
             /\ \A i \in 1..Len(resolved) : resolved[i] = <<>>
        /\ pcLive = "sleeping" =>
             /\ Len(retryLog) = 2 * Len(resolved)
             /\ \A i \in 1..Len(resolved) : resolved[i] = <<>>
        /\ pcLive = "subscribed" =>
             /\ Len(resolved) >= 1
             /\ \A i \in 1..(Len(resolved) - 1) : resolved[i] = <<>>
             /\ resolved[Len(resolved)] # <<>>
             /\ liveRooms = resolved[Len(resolved)]
             /\ Len(retryLog) = 2 * Len(resolved) - 1)
  /\ [][pcLive = "subscribed" =>
          (retryLog' = retryLog /\ resolved' = resolved /\ liveRooms' = liveRooms)]_vars

\* two empty resolutions, two sleeps, and the third resolution returned rooms
C6_Witness ==
  /\ pcLive = "subscribed"
  /\ Len(resolved) = 3
  /\ Len(retryLog) = 5

\* C8: the messageIds mchadToMessage hands out are strictly increasing in
\* creation order, hence pairwise distinct, across archive loads and live
\* push events; every message in a relay store carries a created id.
C8_IdsStrictlyIncrease ==
  /\ \A i, j \in 1..Len(created) : i < j => created[i] < created[j]
  /\ \A st \in {archiveStore, liveStore, mchad} :
       st # Null => st[1].messageId \in Range(created)

\* two archive rooms were loaded with a live push event between them
C8_Witness ==
  /\ Len(created) >= 3
  /\ Len(scripts) = 2
  /\ liveStore # Null
  /\ liveStore[1].messageId = 2

\* C9: with the toggle off no relay message is written to the relay stream;
\* switching the toggle leaves every subscription and both pipelines as they
\* are; a push event arriving while the toggle is on (again) is emitted.
C9_ToggleAtEmission ==
  [][/\ ~enableMchadTLs =>
          (archiveStore' = archiveStore /\ liveStore' = liveStore /\ mchad' = mchad)
     /\ enableMchadTLs' # enableMchadTLs =>
          UNCHANGED << roomSubs, liveRooms, pcLive, pcArchive, scripts, archivePos,
                       archiveSubscribed, liveSubscribed >>
     /\ \A r \in roomSubs, c \in PushContents :
          (/\ enableMchadTLs
           /\ notSuppressed(liveRooms[r].Nick)
           /\ LivePush(r, "insert", c))
          => (liveStore' # liveStore /\ liveStore'[1].text = c.Stext
              /\ (liveSubscribed => mchad' = liveStore'))
     /\ \A j \in 1..Len(scripts) :
          (/\ enableMchadTLs
           /\ notSuppressed(getScriptAuthor(scripts[j]))
           /\ ArchiveEmit(j))
          => archiveStore' = <<scripts[j][archivePos[j] + 1]>>]_vars

\* the toggle went off and on again and a live push event was emitted since
\* (no archive room exists, so the emission was a live one)
C9_Witness ==
  /\ toggleHist = "emitted"
  /\ pcArchive = "done"
  /\ liveStore # Null

\* C12: forwarding is decided when the message is emitted, from the flag the
\* registry holds at that moment: an archive entry or live push event emitted
\* with the toggle on is written to its relay store if and only if its author
\* is not marked suppressed then; a relay store is written by an emission
\* only; marking an author changes no subscription and no store.
C12_DecidedAtEmission ==
  [][/\ \A j \in 1..Len(scripts) :
          ArchiveEmit(j) =>
            LET tl == scripts[j][archivePos[j] + 1]
            IN  IF enableMchadTLs /\ mchadUsers[tl.author] # "true"
                THEN archiveStore' = <<tl>> /\ (archiveSubscribed => mchad' = <<tl>>)
                ELSE archiveStore' = archiveStore /\ mchad' = mchad
     /\ \A r \in roomSubs, f \in {"insert", "update"}, c \in PushContents :
          (enableMchadTLs /\ LivePush(r, f, c)) =>
            IF mchadUsers[liveRooms[r].Nick] # "true"
            THEN /\ liveStore' # liveStore
                 /\ liveStore'[1].author = liveRooms[r].Nick
                 /\ liveStore'[1].text = c.Stext
                 /\ liveSubscribed => mchad' = liveStore'
            ELSE liveStore' = liveStore /\ mchad' = mchad
     /\ archiveStore' # archiveStore => \E j \in 1..Len(scripts) : ArchiveEmit(j)
     /\ liveStore' # liveStore =>
          \E r \in roomSubs, f \in PushFlags, c \in PushContents : LivePush(r, f, c)
     /\ (\E a \in Authors : mchadUsers[a] # "true" /\ mchadUsers'[a] = "true") =>
          UNCHANGED << roomSubs, liveRooms, pcLive, pcArchive, scripts, archivePos,
                       archiveStore, liveStore, mchad, translations >>]_vars

\* no archive room exists and the toggle was on throughout; the first live
\* message of r1 was forwarded, r1 was marked suppressed after that, and the
\* next message built, again of r1, was withheld
C12_Witness ==
  /\ toggleHist = "on"
  /\ pcArchive = "done"
  /\ created = <<1, 2>>
  /\ liveStore # Null
  /\ liveStore[1].messageId = 1
  /\ liveStore[1].author = "r1"
  /\ mchadUsers["r1"] = "true"

\* the authors of the first entries of the replayed scripts
ScriptAuthors(ss) == [j \in 1..Len(ss) |-> ss[j][1].author]

\* C13: activating the archive registers the author of each non-empty script
\* exactly once, in one step, however many entries the scripts have: an author
\* already present keeps its flag (a suppressed author stays suppressed), a new
\* author is entered as not suppressed, no other author's entry changes; the
\* replay of the entries registers nothing.
C13_RegisteredOnce ==
  /\ [](IF pcArchive = "replay"
        THEN /\ Len(registered) = Len(scripts)
             /\ \A j \in 1..Len(scripts) : registered[j][1] = ScriptAuthors(scripts)[j]
             /\ \A j \in 1..Len(scripts) : Len(scripts[j]) >= 1
             /\ \A j \in 1..Len(registered) :
                  mchadUsers[registered[j][1]] # "absent"
        ELSE registered = <<>>)
  /\ [][/\ registered' # registered =>
             /\ registered = <<>>
             /\ pcArchive = "scripts" /\ pcArchive' = "replay"
             /\ \A j \in 1..Len(registered') :
                  registered'[j][2] = mchadUsers[registered'[j][1]]
             /\ \A a \in Authors :
                  mchadUsers'[a] =
                    IF (\E j \in 1..Len(registered') : registered'[j][1] = a)
                          /\ mchadUsers[a] = "absent"
                    THEN "undefined"
                    ELSE mchadUsers[a]
             /\ \A a \in Authors :
                  mchadUsers[a] = "absent" => notSuppressed(a)'
        /\ (\E j \in 1..Len(scripts) : ArchiveEmit(j)) =>
             UNCHANGED << mchadUsers, registered >>]_vars

\* two archive rooms were activated, r1 with one entry and r2 with two, all
\* replayed; r1 was suppressed before and still is, r2 was new and is entered
\* once, as not suppressed
C13_Witness ==
  /\ pcArchive = "replay"
  /\ registered = << <<"r1", "true">>, <<"r2", "absent">> >>
  /\ mchadUsers = [a \in Authors |-> IF a = "r1" THEN "true" ELSE "undefined"]
  /\ Len(scripts[2]) = 2
  /\ archivePos = <<1, 2>>

----------------------------------------------------------------------------
(* The classifier's properties *)

\* C1: a message that is blacklisted, by its text or by its author, causes no
\* write to the Translations, Moderator or Verified stream, whatever else it
\* matches and however the toggles stand.
C1_BlacklistedNeverRouted ==
  \A k \in 1..Len(writes) :
    (textBlacklisted(writes[k].msg.text) \/ authorBlacklisted(writes[k].msg.author))
      => /\ writes[k].out = <<>>
         /\ chatSeen = 1 => (chatTranslations = Null /\ mod = Null /\ verified = Null)

\* a message with a translation marker and an allowed word, by a moderator, is
\* dropped with both toggles on because its text has a denied word
C1_Witness ==
  \E k \in 1..Len(writes) :
    /\ textBlacklisted(writes[k].msg.text)
    /\ textWhitelisted(writes[k].msg.text)
    /\ isTranslation(parseTranslation(writes[k].msg.text))
    /\ "moderator" \in writes[k].msg.types
    /\ writes[k].showMod /\ writes[k].showVerified
    /\ writes[k].out = <<>>

\* the stream the ordered rule list of the specification picks for w.msg under
\* the toggles it was evaluated with, and the text it is given there;
\* needText says whether the two Translations rules ask for a non-empty text
RuleList(w, needText) ==
  LET m == w.msg
      hasText == ~needText \/ trim(m.text) # <<>>
  IN  IF textBlacklisted(m.text) \/ authorBlacklisted(m.author) THEN <<>>
      ELSE IF hasText /\ isTranslation(parseTranslation(m.text))
      THEN << [store |-> "chatTranslations", text |-> parseTranslation(m.text)[1].msg] >>
      ELSE IF hasText /\ (textWhitelisted(m.text) \/ authorWhitelisted(m.author))
      THEN << [store |-> "chatTranslations", text |-> m.text] >>
      ELSE IF ("moderator" \in m.types \/ "owner" \in m.types) /\ w.showMod
      THEN << [store |-> "mod", text |-> m.text] >>
      ELSE IF "verified" \in m.types /\ w.showVerified
      THEN << [store |-> "verified", text |-> m.text] >>
      ELSE <<>>

\* the writes of w are those of rule list r: the same stream, the text of the
\* rule, and every other field that of the message
FollowsRule(w, r) ==
  /\ Len(w.out) = Len(r)
  /\ Len(w.out) <= 1
  /\ \A i \in 1..Len(r) :
       /\ w.out[i].store = r[i].store
       /\ w.out[i].value.text = r[i].text
       /\ \A f \in {"author", "authorId", "types", "timestamp", "messageId", "timestampMs"} :
            w.out[i].value[f] = w.msg[f]

\* C2 as stated: every message is written to at most one stream, the one the
\* rule list picks: blacklisted -> none; marker -> Translations with the
\* residual text; whitelisted -> Translations with the full text; moderator or
\* owner and show-mod -> Moderator; verified and show-verified -> Verified.
C2_RuleListAsStated ==
  \A k \in 1..Len(writes) : FollowsRule(writes[k], RuleList(writes[k], FALSE))

\* C2 amended: the same rule list, where the two Translations rules apply only
\* to a message whose text is not empty after trimming; a whitelisted message
\* with an empty text goes on to the Moderator and Verified rules.
C2_RuleListNonEmptyText ==
  \A k \in 1..Len(writes) : FollowsRule(writes[k], RuleList(writes[k], TRUE))

\* a moderator's marked message was written to Translations, not to Moderator,
\* with its residual text
C2_Witness ==
  \E k \in 1..Len(writes) :
    /\ Len(writes[k].out) = 1
    /\ writes[k].out[1].store = "chatTranslations"
    /\ writes[k].out[1].value.text = <<"x">>
    /\ writes[k].msg.text = <<" ", "[en]", "x", " ">>
    /\ chatTranslations = <<writes[k].out[1].value>>
    /\ "moderator" \in writes[k].msg.types

\* C20: a message whose text is empty after trimming is never written to the
\* Translations stream, not even when its author is on the allow list; it is
\* dropped when blacklisted, else written to the Moderator stream (moderator
\* or owner, show-mod on), else to the Verified stream (verified,
\* show-verified on), else to no stream.
C20_EmptyTextNeverTranslated ==
  \A k \in 1..Len(writes) :
    trim(writes[k].msg.text) = <<>> =>
      LET w == writes[k]
          modShown == ("moderator" \in w.msg.types \/ "owner" \in w.msg.types) /\ w.showMod
          verifiedShown == "verified" \in w.msg.types /\ w.showVerified
          denied == textBlacklisted(w.msg.text) \/ authorBlacklisted(w.msg.author)
      IN  /\ \A i \in 1..Len(w.out) : w.out[i].store # "chatTranslations"
          /\ chatSeen = 1 => (chatTranslations = Null /\ translations = Null)
          /\ Len(w.out) = (IF ~denied /\ (modShown \/ verifiedShown) THEN 1 ELSE 0)
          /\ \A i \in 1..Len(w.out) :
               w.out[i].store = (IF modShown THEN "mod" ELSE "verified")

\* a moderator on the allow list sent a message of white space only: it went
\* to the Moderator stream and Translations stayed empty
C20_Witness ==
  \E k \in 1..Len(writes) :
    /\ writes[k].msg.text = <<" ">>
    /\ authorWhitelisted(writes[k].msg.author)
    /\ ~authorBlacklisted(writes[k].msg.author)
    /\ Len(writes[k].out) = 1
    /\ writes[k].out[1].store = "mod"
    /\ mod # Null
    /\ chatTranslations = Null

----------------------------------------------------------------------------
(* The dispatchers' properties *)

\* C18: a live push event whose flag is neither 'insert' nor 'update' (or is
\* missing) builds no message and leaves the relay's stores and pipeline as
\* they are; a port message of a type the switch does not name leaves every
\* output store and the handshake state as they are.
C18_UnknownIgnored ==
  [][/\ \A r \in roomSubs, f \in PushFlags \ RecognisedFlags, c \in PushContents :
          LivePush(r, f, c) =>
            UNCHANGED << liveStore, archiveStore, mchad, translations, mchadTLCounter,
                         created, roomSubs, liveRooms, pcLive, mchadUsers >>
     /\ PortUnknown =>
          UNCHANGED << chat, chatTranslations, mod, verified, translations, ytcBonks,
                       ytcDeletions, timestamp, portRegistered, tryRegister, frameInfo,
                       awaiting, timers, portSent, errorLog >>
     /\ ignored' # ignored =>
          UNCHANGED << relayVars, filterVars, portVars, scriptVars >>]_vars

\* with the toggle on and a live message in the relay stream, an event with an
\* unrecognised flag and a port message of an unrecognised type were delivered
\* while a registerClient request was awaiting its answer
C18_Witness ==
  /\ ignored = {"flag", "type"}
  /\ enableMchadTLs
  /\ liveStore # Null
  /\ mchad = liveStore
  /\ awaiting > 0
  /\ ~portRegistered

----------------------------------------------------------------------------
(* The aggregator's properties *)

\* the value the classifier wrote last to Translations among the writes ws of
\* one 'messages' response; <<>> if it wrote none
LastTranslation(ws) ==
  LET hits == {k \in 1..Len(ws) :
                 \E i \in 1..Len(ws[k].out) : ws[k].out[i].store = "chatTranslations"}
  IN  IF hits = {} THEN <<>>
      ELSE LET k == CHOOSE x \in hits : \A y \in hits : y <= x
               o == ws[k].out
           IN  << o[Len(o)].value >>

\* C14: sources.translations holds the value emitted last by the classifier's
\* Translations store or by the relay store, and sources.mchad the value
\* emitted last by the archive or the live store, under every interleaving;
\* a step that emits nothing leaves both as they are.
C14_LastWriteWins ==
  /\ [](/\ translations \in {chatTranslations, mchad}
        /\ mchad \in {archiveStore, liveStore}
        /\ Len(translations) <= 1 /\ Len(mchad) <= 1)
  /\ [][/\ chatSeen' # chatSeen =>
             /\ mchad' = mchad
             /\ IF LastTranslation(writes') = <<>>
                THEN translations' = translations /\ chatTranslations' = chatTranslations
                ELSE /\ translations' = LastTranslation(writes')
                     /\ chatTranslations' = LastTranslation(writes')
        /\ archiveStore' # archiveStore =>
             (mchad' = archiveStore' /\ translations' = archiveStore')
        /\ liveStore' # liveStore =>
             (mchad' = liveStore' /\ translations' = liveStore')
        /\ (chatSeen' = chatSeen /\ archiveStore' = archiveStore /\ liveStore' = liveStore)
             => (mchad' = mchad /\ translations' = translations)]_vars

\* the live store, then the archive store, then the classifier emitted:
\* sources.mchad holds the archive value and sources.translations the
\* classifier's
C14_Witness ==
  /\ liveStore # Null
  /\ archiveStore # Null
  /\ archiveStore[1].messageId > liveStore[1].messageId
  /\ mchad = archiveStore
  /\ chatTranslations # Null
  /\ translations = chatTranslations

----------------------------------------------------------------------------
(* The script pipeline's properties *)

\* C7: of a script, getScript keeps exactly the entries not timestamped before
\* firstTime, which are those whose offset recomputed from the display string
\* is not negative, and hands them on in non-decreasing order of that offset
\* (the whole seconds since firstTime).
C7_NegativeDroppedRestSorted ==
  sStage = "done" =>
    LET firstTime == getFirstTime(sRaw)
        keptIds == {i \in 1..Len(sRaw) : sRaw[i].Stime >= firstTime}
    IN  /\ \A k \in 1..Len(sOut) : sOut[k].unix >= 0
        /\ \A k \in 1..(Len(sOut) - 1) : sOut[k].unix <= sOut[k + 1].unix
        /\ {sOut[k].messageId : k \in 1..Len(sOut)} = keptIds
        /\ Len(sOut) = Cardinality(keptIds)
        /\ \A k \in 1..Len(sOut) :
             sOut[k].unix = (sRaw[sOut[k].messageId].Stime - firstTime) \div 1000

\* a script with an entry before the stream start, dropped, and two later
\* entries that replay in the opposite order
C7_Witness ==
  /\ sStage = "done"
  /\ Len(sRaw) = 3
  /\ Len(sOut) = 2
  /\ sOut[1].messageId > sOut[2].messageId
  /\ sOut[1].unix < sOut[2].unix

\* firstTime as the specification words it: the Stime of the first entry with
\* the marker, else that of the first entry, else 0
FirstTimeOf(script) ==
  LET marked == {i \in 1..Len(script) : script[i].Stext \in StreamStartTexts}
  IN  IF marked # {}
      THEN script[CHOOSE i \in marked : \A k \in marked : i <= k].Stime
      ELSE IF Len(script) >= 1 THEN script[1].Stime ELSE 0

\* C15 as stated: for the script [marker at Stime 1000, 'hello' at Stime 1005]
\* the second entry is emitted with millisecond offset 5000, display 00:00:05.
C15_ScenarioAsStated ==
  (sStage = "done" /\ sRaw = MarkerFirstScript) =>
    /\ sBuilt[2].timestampMs = 5000
    /\ sBuilt[2].timestamp = <<0, 0, 5>>

\* C15 amended: getArchiveFromRoom emits one message per script entry, in
\* order, whose millisecond offset is its Stime less firstTime and whose
\* display is the HH:MM:SS of that offset's whole seconds; for the script
\* [marker at Stime 1000, 'hello' at Stime 1005] firstTime is 1000 and the
\* second entry has millisecond offset 5, display 00:00:00.
C15_NormalisedToFirstTime ==
  sStage = "done" =>
    LET firstTime == FirstTimeOf(sRaw)
    IN  /\ Len(sBuilt) = Len(sRaw)
        /\ \A i \in 1..Len(sRaw) :
             LET offset == sRaw[i].Stime - firstTime
                 shown == sBuilt[i].timestamp
             IN  /\ sBuilt[i].text = sRaw[i].Stext
                 /\ sBuilt[i].timestampMs = offset
                 /\ offset >= 0 =>
                      /\ shown[1] * 3600 + shown[2] * 60 + shown[3] = offset \div 1000
                      /\ shown[2] \in 0..59 /\ shown[3] \in 0..59
        /\ sRaw = MarkerFirstScript =>
             /\ firstTime = 1000
             /\ sBuilt[2].timestampMs = 5
             /\ sBuilt[2].timestamp = <<0, 0, 0>>

\* the script [marker at 1000, 'hello' at 1005] was built: its second message
\* is 5 ms after the first
C15_Witness ==
  /\ sStage = "done"
  /\ sRaw = MarkerFirstScript
  /\ Len(sBuilt) = 2
  /\ sBuilt[1].timestampMs = 0
  /\ sBuilt[2].timestampMs = 5

----------------------------------------------------------------------------
(* The lookups' properties *)

\* the rooms an endpoint's answer lists, each with the video link added
RoomsOf(answer, videoLink) ==
  [i \in 1..Len(answer.body) |->
     [f \in DOMAIN answer.body[i] \cup {"videoId"} |->
        IF f = "videoId" THEN videoLink ELSE answer.body[i][f]]]

\* C16: getRooms completes whatever the two lookups answer: a failed lookup
\* contributes the empty list and the other lookup's rooms are returned as if
\* nothing had failed; a failed script request yields the empty script, so
\* getArchiveFromRoom returns no message.
C16_FailureAbsorbed ==
  /\ lookupStage = "done" =>
       /\ lookupRooms.live =
            (IF lookupLive.ok THEN RoomsOf(lookupLive, mchadLink) ELSE <<>>)
       /\ lookupRooms.vod =
            (IF lookupVod.ok THEN RoomsOf(lookupVod, mchadLink) ELSE <<>>)
  /\ lookupStage = "pending" => ENABLED RunGetRooms
  /\ fetchStage = "pending" => ENABLED RunGetArchiveFromRoom
  /\ fetchStage = "done" =>
       Len(fetchOut) = (IF fetchAnswer.ok THEN Len(fetchAnswer.body) ELSE 0)

\* the live lookup failed and the archive lookup answered two rooms, which
\* getRooms returned; the script request failed and no message was built
C16_Witness ==
  /\ lookupStage = "done"
  /\ ~lookupLive.ok
  /\ lookupVod.ok
  /\ lookupRooms.live = <<>>
  /\ Len(lookupRooms.vod) = 2
  /\ fetchStage = "done"
  /\ ~fetchAnswer.ok
  /\ fetchOut = <<>>

----------------------------------------------------------------------------
(* The tag resolver's properties *)

\* C17: getRoomTagLanguageCode returns the code of the last match, taking the
\* tokens in order and, within a token, the languages in the order of
\* languagesInfo; it returns null when no token matches a language.
C17_LastMatchWins ==
  tagStage = "done" =>
    LET hits == {h \in (1..Len(tagIn)) \X (1..Len(languagesInfo)) :
                   isLangMatch(tagIn[h[1]], languagesInfo[h[2]])}
    IN  IF hits = {} THEN tagOut = "null"
        ELSE LET last == CHOOSE h \in hits :
                           \A g \in hits : g[1] < h[1] \/ (g[1] = h[1] /\ g[2] <= h[2])
             IN  tagOut = languagesInfo[last[2]].code

\* a tag whose first token names English and whose last matching token names
\* Japanese resolved to Japanese
C17_Witness ==
  /\ tagStage = "done"
  /\ tagIn = <<"EN", "JP", "x">>
  /\ tagOut = "jp"

----------------------------------------------------------------------------
(* The handshake's properties *)

\* C10: at most 3 registerClient requests are ever sent on the port, and a
\* failure answer to the third attempt is logged and schedules no retry.
C10_AtMostThreeRequests ==
  /\ [](portSent <= 3)
  /\ [][(RegisterClientResponse(FALSE) /\ tryRegister = 3)
          => (Len(errorLog') = Len(errorLog) + 1 /\ timers' = timers)]_vars

\* the registerClientResponse handler has logged the failure of the last attempt
HandshakeFailed ==
  \E i \in 1..Len(errorLog) :
    errorLog[i] = "Failed to connect to YTC source after 3 attempts"

\* C11: once the handshake has failed (the failure is logged and the port is
\* not registered), no later port push writes a value to the chat, bonks,
\* deletions or timestamp store.
C11_InertAfterFailure ==
  [][(HandshakeFailed /\ ~portRegistered)
       => UNCHANGED << chat, ytcBonks, ytcDeletions, timestamp >>]_vars

\* C19: once a registerClientResponse with success has been received
\* (portRegistered is true), no registerClient request is sent on the port,
\* whatever timers are pending and whatever frameInfo messages arrive.
C19_NoRequestOnceRegistered ==
  [][portRegistered => portSent' = portSent]_vars

====
